---- MODULE Spec2Model ----
(***************************************************************************)
(* The upload endpoint of reasonable-excuse (src/upload.rs, and its older  *)
(* copy in src/main.rs): concurrent upload handlers that claim a name in   *)
(* the target directory with an exclusive create and then write the bytes. *)
(* The only shared state is the filesystem.                                *)
(***************************************************************************)
EXTENDS Integers, Sequences, FiniteSets, TLC

(***************************************************************************)
(* Bounds of the model.                                                    *)
(***************************************************************************)
NumProcs == 2          \* concurrent upload requests
AttemptCap == 2        \* the count of create attempts saturates here
MaxPosts == 62         \* requests posted to the request log
MaxBytes == 1          \* longest uploaded content
MaxDraw == 1           \* the upload handlers draw random values in 0..MaxDraw
GenMaxLen == 2         \* longest identifier of the generate_name specification

Procs == 1..NumProcs

(***************************************************************************)
(* Status codes returned by the handlers.                                  *)
(***************************************************************************)
OK == 200
BAD_REQUEST == 400
INTERNAL_SERVER_ERROR == 500
Pending == 0

(***************************************************************************)
(* Strings are sequences of one-character strings.                         *)
(***************************************************************************)
Lower == <<"a","b","c","d","e","f","g","h","i","j","k","l","m",
           "n","o","p","q","r","s","t","u","v","w","x","y","z">>
Upper == <<"A","B","C","D","E","F","G","H","I","J","K","L","M",
           "N","O","P","Q","R","S","T","U","V","W","X","Y","Z">>
Digits == <<"0","1","2","3","4","5","6","7","8","9">>

Range(s) == {s[i] : i \in 1..Len(s)}
Alphabet == Range(Lower) \cup Range(Upper) \cup Range(Digits)

Max(a, b) == IF a > b THEN a ELSE b

(***************************************************************************)
(* generate_name: len draws of gen_range(0..=61), each mapped to a char.   *)
(***************************************************************************)
gen_range == 0..61

\* Faulty mapping: the last arm stops at 60.
num_to_char_short(num) ==
    IF num >= 0 /\ num <= 25 THEN Lower[num + 1]
    ELSE IF num >= 26 /\ num <= 51 THEN Upper[(num - 26) + 1]
    ELSE IF num >= 52 /\ num <= 60 THEN Digits[(num - 52) + 1]
    ELSE "panic"

num_to_char(num) ==
    IF num >= 0 /\ num <= 25 THEN Lower[num + 1]
    ELSE IF num >= 26 /\ num <= 51 THEN Upper[(num - 26) + 1]
    ELSE IF num >= 52 /\ num <= 61 THEN Digits[(num - 52) + 1]
    ELSE "panic"

generate_name(len, draws) == [i \in 1..len |-> num_to_char(draws[i])]

(***************************************************************************)
(* Faulty splits: at the first '.' (split_once), and one that takes a name *)
(* without '.' to have an empty extension.                                 *)
(***************************************************************************)
split_once(s) ==
    LET dots == {i \in 1..Len(s) : s[i] = "."}
        d == IF dots = {} THEN 0 ELSE CHOOSE i \in dots : \A j \in dots : i <= j
    IN [found |-> d > 0,
        suffix |-> IF d > 0 THEN SubSeq(s, d + 1, Len(s)) ELSE <<>>]

rsplit_once_or_empty(s) ==
    LET dots == {i \in 1..Len(s) : s[i] = "."}
        d == IF dots = {} THEN 0 ELSE CHOOSE i \in dots : \A j \in dots : j <= i
    IN [found |-> TRUE,
        suffix |-> IF d > 0 THEN SubSeq(s, d + 1, Len(s)) ELSE <<>>]

(***************************************************************************)
(* str::rsplit_once('.'): the index of the last '.', 0 when there is none, *)
(* and the suffix after it.                                                *)
(***************************************************************************)
LastDot(s) ==
    LET dots == {i \in 1..Len(s) : s[i] = "."}
    IN IF dots = {} THEN 0 ELSE CHOOSE i \in dots : \A j \in dots : j <= i

rsplit_once(s) ==
    LET d == LastDot(s)
    IN [found |-> d > 0,
        suffix |-> IF d > 0 THEN SubSeq(s, d + 1, Len(s)) ELSE <<>>]

(***************************************************************************)
(* Paths.  PathBuf::push replaces the path when the pushed one is          *)
(* absolute and otherwise appends it after a separator.                    *)
(***************************************************************************)
target_dir == <<"/", "t">>

is_absolute(s) == Len(s) > 0 /\ s[1] = "/"

push(base, s) ==
    IF is_absolute(s) THEN s
    ELSE IF Len(base) > 0 /\ base[Len(base)] = "/" THEN base \o s
    ELSE base \o <<"/">> \o s

(***************************************************************************)
(* The components of a path: the pieces between separators, empty pieces   *)
(* included.                                                               *)
(***************************************************************************)
RECURSIVE Components(_)
Components(s) ==
    LET seps == {i \in 1..Len(s) : s[i] = "/"}
    IN IF seps = {} THEN <<s>>
       ELSE LET i == CHOOSE k \in seps : \A j \in seps : k <= j
            IN <<SubSeq(s, 1, i - 1)>> \o Components(SubSeq(s, i + 1, Len(s)))

Dot == <<".">>
DotDot == <<".", ".">>

(***************************************************************************)
(* The directories that exist: the root and the target directory.  The     *)
(* handlers never create a directory.                                      *)
(***************************************************************************)
Dirs == {<<>>, <<<<"t">>>>}

Parent(key) == IF key = <<>> THEN <<>> ELSE SubSeq(key, 1, Len(key) - 1)

(***************************************************************************)
(* Path resolution of open(2) for an absolute path: walk the components    *)
(* from the root; every component but the last must lead to an existing    *)
(* directory.  The result is the resolved location (a sequence of names),  *)
(* or the error of the walk.                                               *)
(***************************************************************************)
RECURSIVE Walk(_, _)
Walk(cur, comps) ==
    IF cur \notin Dirs THEN [err |-> "NotFound", key |-> <<>>]
    ELSE IF Len(comps) = 1 THEN
        IF comps[1] = <<>> \/ comps[1] = Dot \/ comps[1] = DotDot
        THEN [err |-> "IsADirectory", key |-> <<>>]
        ELSE [err |-> "none", key |-> Append(cur, comps[1])]
    ELSE IF comps[1] = <<>> \/ comps[1] = Dot THEN Walk(cur, Tail(comps))
    ELSE IF comps[1] = DotDot THEN Walk(Parent(cur), Tail(comps))
    ELSE Walk(Append(cur, comps[1]), Tail(comps))

Resolve(p) == Walk(<<>>, Components(p))

(***************************************************************************)
(* pwrite: the chunk lands at the handle's offset.                         *)
(***************************************************************************)
WriteAt(content, off, chunk) ==
    [i \in 1..Max(Len(content), off + Len(chunk)) |->
        IF i > off /\ i <= off + Len(chunk) THEN chunk[i - off]
        ELSE IF i <= Len(content) THEN content[i]
        ELSE 0]

(***************************************************************************)
(* State.  fs maps the resolved location of every regular file to its      *)
(* content and to the request that created it.  filename_length is the     *)
(* configuration.  The other variables are the locals of each running      *)
(* handler: multipart is the request body it received, error the last      *)
(* I/O error it met.  clients, names and malformed fix the scenario: which *)
(* requests arrive, the file names they carry, and whether malformed       *)
(* requests are among them.  gen_* are the state of a lone call of         *)
(* generate_name.  attempts and tick are history variables of the loop,    *)
(* kept only by the specifications that watch the retries: the number of   *)
(* create attempts of a handler (saturating) and its parity.               *)
(***************************************************************************)
VARIABLES fs, filename_length, clients, names, malformed, pc, multipart, keep_name,
          original_name, bytes, extension, name, path, file, written, error,
          result, gen_pc, gen_len, gen_draws, gen_out, attempts, tick,
          last_requests, pushed, pcs_pc, pcs_out

config_vars == <<filename_length, clients, names, malformed>>
upload_vars == <<fs, pc, multipart, keep_name, original_name, bytes, extension,
                 name, path, file, written, error, result>>
gen_vars == <<gen_pc, gen_len, gen_draws, gen_out>>
history_vars == <<attempts, tick>>
pcs_vars == <<last_requests, pushed, pcs_pc, pcs_out>>
vars == <<config_vars, upload_vars, gen_vars, history_vars, pcs_vars>>

(***************************************************************************)
(* Inputs.  PlainNames: a name with an extension.  RichNames adds a name   *)
(* without extension, a trailing dot, two dots with an upper-case          *)
(* extension, a parent component, an absolute path and a separator inside  *)
(* the extension.  The content of request p is made of bytes p, so that    *)
(* the origin of every stored byte is visible.                             *)
(***************************************************************************)
PlainNames ==
    { <<"a", ".", "x">> }

RichNames ==
    PlainNames \cup
    { <<"n">>,
      <<"a", ".">>,
      <<"a", ".", "b", ".", "X">>,
      <<".", ".", "/", "a", ".", "x">>,
      <<"/", "a", ".", "x">>,
      <<"b", ".", "/", "c">> }

FilenameLengths == {0, 1}

Contents(p) == {[i \in 1..n |-> p] : n \in 0..MaxBytes}

GoodBody(fn, b) ==
    [next_field |-> "some", name |-> "file", has_file_name |-> TRUE,
     file_name |-> fn, readable |-> TRUE, bytes |-> b]

NoBody ==
    [next_field |-> "none", name |-> "absent", has_file_name |-> FALSE,
     file_name |-> <<>>, readable |-> FALSE, bytes |-> <<>>]

MalformedBodies(p) ==
    {[GoodBody(<<"a", ".", "x">>, <<p>>) EXCEPT !.next_field = nf] : nf \in {"error", "none"}}
    \cup {[GoodBody(<<"a", ".", "x">>, <<p>>) EXCEPT !.name = fnm] : fnm \in {"absent", "other"}}
    \cup {[GoodBody(<<"a", ".", "x">>, <<p>>) EXCEPT !.has_file_name = FALSE],
          [GoodBody(<<"a", ".", "x">>, <<p>>) EXCEPT !.readable = FALSE]}

Bodies(p) ==
    {GoodBody(fn, b) : fn \in names, b \in Contents(p)}
    \cup (IF malformed THEN MalformedBodies(p) ELSE {})

KeepNameParams == {"absent", "false", "true"}

Draws == {d \in gen_range : d <= MaxDraw}

(***************************************************************************)
(* Faulty reader: the name of the field is not checked.                    *)
(***************************************************************************)
get_file_name_and_bytes_any_field(body) ==
    IF body.next_field # "some" THEN [ok |-> FALSE, file_name |-> <<>>, bytes |-> <<>>]
    ELSE IF ~body.has_file_name THEN [ok |-> FALSE, file_name |-> <<>>, bytes |-> <<>>]
    ELSE IF ~body.readable THEN [ok |-> FALSE, file_name |-> <<>>, bytes |-> <<>>]
    ELSE [ok |-> TRUE, file_name |-> body.file_name, bytes |-> body.bytes]

(***************************************************************************)
(* get_file_name_and_bytes: the first field must exist, be named "file",   *)
(* carry a file name and have a readable body.                             *)
(***************************************************************************)
get_file_name_and_bytes(body) ==
    IF body.next_field # "some" THEN [ok |-> FALSE, file_name |-> <<>>, bytes |-> <<>>]
    ELSE IF body.name # "file" THEN [ok |-> FALSE, file_name |-> <<>>, bytes |-> <<>>]
    ELSE IF ~body.has_file_name THEN [ok |-> FALSE, file_name |-> <<>>, bytes |-> <<>>]
    ELSE IF ~body.readable THEN [ok |-> FALSE, file_name |-> <<>>, bytes |-> <<>>]
    ELSE [ok |-> TRUE, file_name |-> body.file_name, bytes |-> body.bytes]

(***************************************************************************)
(* Faulty opens: create(true) opens whatever exists at the location;       *)
(* with truncate(true) the existing content is dropped as well.            *)
(***************************************************************************)
open_create(files, key, p) ==
    IF key \in Dirs THEN [err |-> "AlreadyExists", files |-> files]
    ELSE IF key \in DOMAIN files THEN [err |-> "none", files |-> files]
    ELSE [err |-> "none", files |-> files @@ (key :> [content |-> <<>>, creator |-> p])]

open_create_truncate(files, key, p) ==
    IF key \in Dirs THEN [err |-> "AlreadyExists", files |-> files]
    ELSE IF key \in DOMAIN files
    THEN [err |-> "none", files |-> [files EXCEPT ![key].content = <<>>]]
    ELSE [err |-> "none", files |-> files @@ (key :> [content |-> <<>>, creator |-> p])]

(***************************************************************************)
(* OpenOptions::new().write(true).create_new(true).open(): creates the     *)
(* file at the resolved location unless something exists there.            *)
(***************************************************************************)
open_create_new(files, key, p) ==
    IF key \in DOMAIN files \/ key \in Dirs
    THEN [err |-> "AlreadyExists", files |-> files]
    ELSE [err |-> "none", files |-> files @@ (key :> [content |-> <<>>, creator |-> p])]

(***************************************************************************)
(* Faulty match: the guard on keep_name is missing, every collision is     *)
(* retried.                                                                *)
(***************************************************************************)
open_match_always_retry(err, keep) ==
    IF err = "AlreadyExists" THEN "continue"
    ELSE IF err # "none" THEN "return_err"
    ELSE "ok"

\* A match whose collision arm is missing: every error is returned.
open_match_never_retry(err, keep) ==
    IF err # "none" THEN "return_err"
    ELSE "ok"

\* A match whose arms for the errors all retry.
open_match_retry_any(err, keep) ==
    IF err # "none" THEN "continue"
    ELSE "ok"

(***************************************************************************)
(* The match on the result of open: retry, fail, or go on to write.        *)
(***************************************************************************)
open_match(err, keep) ==
    IF err = "AlreadyExists" /\ ~keep THEN "continue"
    ELSE IF err # "none" THEN "return_err"
    ELSE "ok"

Return(p, status, body) ==
    /\ result' = [result EXCEPT ![p] = [status |-> status, body |-> body]]
    /\ pc' = [pc EXCEPT ![p] = "done"]

(***************************************************************************)
(* The head of both handlers, up to the loop: read the request, split off  *)
(* the extension.                                                          *)
(***************************************************************************)
Begin(p, keep, body) ==
    LET got == get_file_name_and_bytes(body)
        ext == rsplit_once(got.file_name)
    IN /\ pc[p] = "idle"
       /\ p \in clients
       /\ multipart' = [multipart EXCEPT ![p] = body]
       /\ keep_name' = [keep_name EXCEPT ![p] = keep]
       /\ IF ~got.ok
          THEN /\ Return(p, BAD_REQUEST, <<>>)
               /\ UNCHANGED <<original_name, bytes, extension>>
          ELSE /\ original_name' = [original_name EXCEPT ![p] = got.file_name]
               /\ bytes' = [bytes EXCEPT ![p] = got.bytes]
               /\ IF ~ext.found
                  THEN /\ Return(p, BAD_REQUEST, <<>>)
                       /\ UNCHANGED extension
                  ELSE /\ extension' = [extension EXCEPT ![p] = ext.suffix]
                       /\ pc' = [pc EXCEPT ![p] = "loop"]
                       /\ UNCHANGED result
       /\ UNCHANGED <<fs, name, path, file, written, error, config_vars, gen_vars>>

unwrap_or_false(param) == param = "true"

post(p) ==
    \E param \in KeepNameParams, body \in Bodies(p) :
        Begin(p, unwrap_or_false(param), body)

upload_post(p) ==
    \E body \in Bodies(p) : Begin(p, FALSE, body)

(***************************************************************************)
(* One iteration of the loop up to the match on the result of open.        *)
(* io_error is the environment: the create may fail for a reason other     *)
(* than the name being taken.  name and path keep the last candidate.      *)
(***************************************************************************)
candidate(keep, orig, ext, len, draws) ==
    IF keep THEN orig
    ELSE generate_name(len, draws) \o <<".">> \o ext

loop_try(p, draws, io_error) ==
    LET n == candidate(keep_name[p], original_name[p], extension[p],
                       filename_length, draws)
        pa == push(target_dir, n)
        r == Resolve(pa)
        o == open_create_new(fs, r.key, p)
        err == IF r.err # "none" THEN r.err
               ELSE IF io_error THEN "PermissionDenied"
               ELSE o.err
        m == open_match(err, keep_name[p])
    IN /\ pc[p] = "loop"
       /\ name' = [name EXCEPT ![p] = n]
       /\ path' = [path EXCEPT ![p] = pa]
       /\ error' = [error EXCEPT ![p] = err]
       /\ IF m = "continue"
          THEN UNCHANGED <<fs, pc, result, file>>
          ELSE IF m = "return_err"
          THEN /\ Return(p, INTERNAL_SERVER_ERROR, <<>>)
               /\ UNCHANGED <<fs, file>>
          ELSE /\ fs' = o.files
               /\ file' = [file EXCEPT ![p] = r.key]
               /\ pc' = [pc EXCEPT ![p] = "write"]
               /\ UNCHANGED result
       /\ UNCHANGED <<multipart, keep_name, original_name, bytes, extension, written,
                      config_vars, gen_vars>>

loop_open(p) ==
    \E draws \in [1..filename_length -> Draws], io_error \in BOOLEAN :
        loop_try(p, draws, io_error)

(***************************************************************************)
(* copy_buf: chunks of the content are written at the handle's offset      *)
(* until none is left.  A write may fail; the final flush reports the      *)
(* failure of a write and has none of its own.                             *)
(***************************************************************************)
copy_write(p) ==
    /\ pc[p] = "write"
    /\ written[p] < Len(bytes[p])
    /\ \E n \in 1..(Len(bytes[p]) - written[p]) :
        LET chunk == SubSeq(bytes[p], written[p] + 1, written[p] + n)
        IN /\ fs' = [fs EXCEPT ![file[p]].content = WriteAt(@, written[p], chunk)]
           /\ written' = [written EXCEPT ![p] = @ + n]
    /\ UNCHANGED <<pc, multipart, keep_name, original_name, bytes, extension, name,
                   path, file, error, result, config_vars, gen_vars>>

\* A failure path that removes the file it had created.
copy_error_rollback(p) ==
    /\ pc[p] = "write"
    /\ written[p] < Len(bytes[p])
    /\ error' = [error EXCEPT ![p] = "WriteError"]
    /\ fs' = [k \in DOMAIN fs \ {file[p]} |-> fs[k]]
    /\ Return(p, INTERNAL_SERVER_ERROR, <<>>)
    /\ UNCHANGED <<multipart, keep_name, original_name, bytes, extension, name,
                   path, file, written, config_vars, gen_vars>>

copy_error(p) ==
    /\ pc[p] = "write"
    /\ written[p] < Len(bytes[p])
    /\ error' = [error EXCEPT ![p] = "WriteError"]
    /\ Return(p, INTERNAL_SERVER_ERROR, <<>>)
    /\ UNCHANGED <<fs, multipart, keep_name, original_name, bytes, extension, name,
                   path, file, written, config_vars, gen_vars>>

copy_done(p) ==
    /\ pc[p] = "write"
    /\ written[p] = Len(bytes[p])
    /\ Return(p, OK, name[p])
    /\ UNCHANGED <<fs, multipart, keep_name, original_name, bytes, extension, name,
                   path, file, written, error, config_vars, gen_vars>>

InitUpload ==
    /\ fs = <<>>
    /\ pc = [p \in Procs |-> "idle"]
    /\ multipart = [p \in Procs |-> NoBody]
    /\ keep_name = [p \in Procs |-> FALSE]
    /\ original_name = [p \in Procs |-> <<>>]
    /\ bytes = [p \in Procs |-> <<>>]
    /\ extension = [p \in Procs |-> <<>>]
    /\ name = [p \in Procs |-> <<>>]
    /\ path = [p \in Procs |-> <<>>]
    /\ file = [p \in Procs |-> <<>>]
    /\ written = [p \in Procs |-> 0]
    /\ error = [p \in Procs |-> "none"]
    /\ result = [p \in Procs |-> [status |-> Pending, body |-> <<>>]]

InitHistory ==
    /\ attempts = [p \in Procs |-> 0]
    /\ tick = [p \in Procs |-> FALSE]

InitPcs ==
    /\ last_requests = <<>>
    /\ pushed = 0
    /\ pcs_pc = [c \in Procs |-> "idle"]
    /\ pcs_out = <<>>

InitGenIdle ==
    /\ gen_pc = "idle"
    /\ gen_len = 0
    /\ gen_draws = <<>>
    /\ gen_out = <<>>

(***************************************************************************)
(* Spec: the concurrent stores.  Every request may arrive, well-formed and *)
(* with the plain name; the identifiers are not empty.                     *)
(* SpecNames: the handling of a request.  Two requests, well-formed or     *)
(* not, with the rich names; the identifiers may be empty.                 *)
(***************************************************************************)
Init ==
    /\ InitUpload
    /\ InitHistory
    /\ InitPcs
    /\ InitGenIdle
    /\ filename_length \in FilenameLengths \ {0}
    /\ clients = Procs
    /\ names = PlainNames
    /\ malformed = FALSE

InitNames ==
    /\ InitUpload
    /\ InitHistory
    /\ InitPcs
    /\ InitGenIdle
    /\ filename_length \in FilenameLengths
    /\ clients = {p \in Procs : p <= 2}
    /\ names = RichNames
    /\ malformed = TRUE

(***************************************************************************)
(* SpecGen: one call of generate_name with any length up to GenMaxLen and  *)
(* any draws of the random source; no request arrives.                     *)
(***************************************************************************)
InitGen ==
    /\ InitUpload
    /\ InitHistory
    /\ InitPcs
    /\ filename_length \in FilenameLengths
    /\ clients = {}
    /\ names = {}
    /\ malformed = FALSE
    /\ gen_pc = "call"
    /\ gen_len \in 0..GenMaxLen
    /\ gen_draws = <<>>
    /\ gen_out = <<>>

generate(len) ==
    /\ gen_pc = "call"
    /\ gen_len = len
    /\ \E draws \in [1..len -> gen_range] :
        /\ gen_draws' = draws
        /\ gen_out' = generate_name(len, draws)
    /\ gen_pc' = "ret"
    /\ UNCHANGED <<gen_len, config_vars, upload_vars>>

NextGen == \E len \in 0..GenMaxLen : generate(len) /\ UNCHANGED <<history_vars, pcs_vars>>

SpecGen == InitGen /\ [][NextGen]_vars

Next ==
    \E p \in Procs :
        \/ post(p) /\ UNCHANGED <<history_vars, pcs_vars>>
        \/ upload_post(p) /\ UNCHANGED <<history_vars, pcs_vars>>
        \/ loop_open(p) /\ UNCHANGED <<history_vars, pcs_vars>>
        \/ copy_write(p) /\ UNCHANGED <<history_vars, pcs_vars>>
        \/ copy_error(p) /\ UNCHANGED <<history_vars, pcs_vars>>
        \/ copy_done(p) /\ UNCHANGED <<history_vars, pcs_vars>>

Spec == Init /\ [][Next]_vars

SpecNames == InitNames /\ [][Next]_vars

(***************************************************************************)
(* The retries watched.  Every pass of the loop of post counts as a create *)
(* attempt of its handler and flips tick, so that a pass that leaves the   *)
(* handler where it was (the same candidate colliding again) is a step all *)
(* the same.  filename_length 0 is among the configurations: every         *)
(* candidate of an extension is then the one name ".<ext>".                *)
(***************************************************************************)
Observe(p) ==
    /\ attempts' = [attempts EXCEPT ![p] = IF @ < AttemptCap THEN @ + 1 ELSE @]
    /\ tick' = [tick EXCEPT ![p] = ~@]

InitRetry ==
    /\ InitUpload
    /\ InitHistory
    /\ InitPcs
    /\ InitGenIdle
    /\ filename_length \in FilenameLengths
    /\ clients = {p \in Procs : p <= 2}
    /\ names = PlainNames
    /\ malformed = FALSE

NextRetry ==
    \E p \in Procs :
        \/ post(p) /\ UNCHANGED <<history_vars, pcs_vars>>
        \/ upload_post(p) /\ UNCHANGED <<history_vars, pcs_vars>>
        \/ loop_open(p) /\ Observe(p) /\ UNCHANGED pcs_vars
        \/ copy_write(p) /\ UNCHANGED <<history_vars, pcs_vars>>
        \/ copy_error(p) /\ UNCHANGED <<history_vars, pcs_vars>>
        \/ copy_done(p) /\ UNCHANGED <<history_vars, pcs_vars>>

SpecRetry == InitRetry /\ [][NextRetry]_vars

(***************************************************************************)
(* Scheduling.  The runtime polls every handler it has accepted until the  *)
(* handler returns, so a handler in the loop keeps attempting and a        *)
(* handler that is writing keeps writing.  thread_rng is fair: a handler   *)
(* that keeps drawing draws every value again and again.  Whether an       *)
(* attempt or a write meets an I/O error is left to the environment.       *)
(***************************************************************************)
AllDraws == UNION {[1..len -> Draws] : len \in FilenameLengths}

loop_draw(p, draws) ==
    /\ DOMAIN draws = 1..filename_length
    /\ loop_try(p, draws, FALSE)
    /\ Observe(p)
    /\ UNCHANGED pcs_vars

\* loop_draw(p, draws) is enabled exactly where p is in the loop and draws
\* has filename_length values, and it is never a stuttering step since it
\* flips tick: the last conjunct is weak fairness of loop_draw(p, draws)
\* with its enabling condition written out.
Fairness ==
    \A p \in Procs :
        /\ WF_vars(copy_write(p) /\ UNCHANGED <<history_vars, pcs_vars>>)
        /\ WF_vars(copy_done(p) /\ UNCHANGED <<history_vars, pcs_vars>>)
        /\ \A draws \in AllDraws :
              <>[](pc[p] = "loop" /\ DOMAIN draws = 1..filename_length)
                  => []<><<loop_draw(p, draws)>>_vars

SpecFair == InitRetry /\ [][NextRetry]_vars /\ Fairness

(***************************************************************************)
(* The request log of pcs.rs.  last_requests is the Vec of the shared      *)
(* state; a request stands for its body and time and is written as the     *)
(* number of the push that appended it, counted by pushed.  pcs_pc is      *)
(* where each handler of POST /pcs is: it builds its request, then takes   *)
(* the write lock, and what it does under the lock is one step.  pcs_out   *)
(* is the text of the last answer to GET /pcs, one line per request.       *)
(***************************************************************************)
BufferLimit == 50

DrainCount == 10

\* Vec::truncate in the place of drain: the newest entries go.
drain_back(v, n) == SubSeq(v, 1, Len(v) - n)

\* Vec::drain(..n), the drained part dropped.
drain(v, n) == SubSeq(v, n + 1, Len(v))

pcs_request(c) ==
    /\ pcs_pc[c] = "idle"
    /\ pcs_pc' = [pcs_pc EXCEPT ![c] = "request"]
    /\ UNCHANGED <<last_requests, pushed, pcs_out>>

pcs_post(c) ==
    /\ pcs_pc[c] = "request"
    /\ pushed < MaxPosts
    /\ LET request == pushed + 1
           v == Append(last_requests, request)
       IN /\ pushed' = request
          /\ last_requests' = IF Len(v) > BufferLimit THEN drain(v, DrainCount) ELSE v
    /\ pcs_pc' = [pcs_pc EXCEPT ![c] = "idle"]
    /\ UNCHANGED pcs_out

pcs_get(c) ==
    /\ pcs_pc[c] = "idle"
    /\ pcs_out' = last_requests
    /\ UNCHANGED <<last_requests, pushed, pcs_pc>>

InitPcsOnly ==
    /\ InitUpload
    /\ InitHistory
    /\ InitPcs
    /\ InitGenIdle
    /\ filename_length = 0
    /\ clients = {}
    /\ names = {}
    /\ malformed = FALSE

NextPcs ==
    \E c \in Procs :
        \/ pcs_request(c) /\ UNCHANGED <<config_vars, upload_vars, gen_vars, history_vars>>
        \/ pcs_post(c) /\ UNCHANGED <<config_vars, upload_vars, gen_vars, history_vars>>
        \/ pcs_get(c) /\ UNCHANGED <<config_vars, upload_vars, gen_vars, history_vars>>

SpecPcs == InitPcsOnly /\ [][NextPcs]_vars

(***************************************************************************)
(* Properties.                                                             *)
(***************************************************************************)
Created(p) == {k \in DOMAIN fs : fs[k].creator = p}

Succeeded(p) == pc[p] = "done" /\ result[p].status = OK

Attempted(p) == path[p] # <<>>

\* C1: two random-mode uploads that both return success never return the
\* same stored name.
C1_DistinctRandomNames ==
    \A p, q \in Procs :
        (p # q /\ Succeeded(p) /\ Succeeded(q) /\ ~keep_name[p] /\ ~keep_name[q])
            => result[p].body # result[q].body

\* Two random-mode uploads with the same extension, drawing from the same
\* candidates, have both succeeded.
C1_Witness ==
    \E p, q \in Procs :
        /\ p # q /\ Succeeded(p) /\ Succeeded(q) /\ ~keep_name[p] /\ ~keep_name[q]
        /\ extension[p] = extension[q]
        /\ Len(result[p].body) = Len(result[q].body)

\* C2: no step removes a file, and the content of a file changes only in a
\* write of the upload that created it, which extends it; so no upload
\* touches a file that existed before its create attempt.
C2_NoClobber ==
    [][\A k \in DOMAIN fs :
          /\ k \in DOMAIN fs'
          /\ fs'[k].creator = fs[k].creator
          /\ fs'[k].content # fs[k].content =>
                /\ \E p \in Procs : /\ fs[k].creator = p
                                    /\ file[p] = k
                                    /\ written'[p] > written[p]
                /\ Len(fs'[k].content) > Len(fs[k].content)
                /\ SubSeq(fs'[k].content, 1, Len(fs[k].content)) = fs[k].content]_vars

\* A second keep-name upload of a name has failed and the file of the first
\* holds what the first wrote.
C2_Witness ==
    \E p, q \in Procs :
        /\ p # q /\ keep_name[p] /\ keep_name[q]
        /\ Succeeded(p) /\ bytes[p] # <<>>
        /\ pc[q] = "done" /\ path[q] = path[p] /\ error[q] = "AlreadyExists"
        /\ fs[file[p]].content = bytes[p]

\* C3: a keep-name upload attempts one create, at the caller's name used
\* verbatim: it never stays in the loop after an attempt, and when the name
\* is taken it ends with an error and has created no file.
C3_KeepNameSingleAttempt ==
    \A p \in Procs :
        keep_name[p] =>
            /\ pc[p] \in {"idle", "loop"} => ~Attempted(p)
            /\ Attempted(p) => /\ name[p] = original_name[p]
                               /\ path[p] = target_dir \o <<"/">> \o original_name[p]
                                  \/ (original_name[p][1] = "/" /\ path[p] = original_name[p])
            /\ (Attempted(p) /\ error[p] = "AlreadyExists") =>
                    /\ pc[p] = "done"
                    /\ result[p].status # OK
                    /\ Created(p) = {}

\* A keep-name upload met an existing file of its name and has failed.
C3_Witness ==
    \E p, q \in Procs :
        /\ p # q /\ keep_name[p] /\ pc[p] = "done" /\ error[p] = "AlreadyExists"
        /\ Created(p) = {}
        /\ \E k \in Created(q) : Resolve(path[p]).key = k

\* C4: every file lies directly in the target directory: its resolved
\* location is the target directory followed by one name.
C4_FilesInTargetDir ==
    \A k \in DOMAIN fs : Len(k) = 2 /\ k[1] = <<"t">>

\* C5: a random-mode stored name is filename_length alphabet characters,
\* a '.', and the suffix after the last '.' of the original name, so that
\* both names have the same extension and an original name ending in '.'
\* gives a stored name ending in '.'; a keep-name stored name is the original.
SuffixAfterLastDot(s) ==
    LET i == CHOOSE i \in 1..Len(s) :
                 s[i] = "." /\ \A j \in (i + 1)..Len(s) : s[j] # "."
    IN SubSeq(s, i + 1, Len(s))

C5_StoredName ==
    \A p \in Procs :
        Succeeded(p) =>
            LET b == result[p].body
                o == original_name[p]
                e == SuffixAfterLastDot(o)
            IN IF keep_name[p] THEN b = o
               ELSE /\ Len(b) = filename_length + 1 + Len(e)
                    /\ \A i \in 1..filename_length : b[i] \in Alphabet
                    /\ b[filename_length + 1] = "."
                    /\ SubSeq(b, filename_length + 2, Len(b)) = e
                    /\ SuffixAfterLastDot(b) = e
                    /\ o[Len(o)] = "." => b[Len(b)] = "."

\* A random-mode upload of a name with two dots and an upper-case extension
\* has succeeded, and so has one of a name ending in '.'.
C5_Witness ==
    \E p, q \in Procs :
        /\ Succeeded(p) /\ ~keep_name[p]
        /\ original_name[p] = <<"a", ".", "b", ".", "X">>
        /\ Succeeded(q) /\ ~keep_name[q]
        /\ original_name[q] = <<"a", ".">>

\* C6: a successful upload has created exactly one file, the file of the
\* returned name in the target directory, and that file holds exactly the
\* bytes of the upload; no file holds a byte of another upload.
C6_RoundTrip ==
    /\ \A p \in Procs :
          Succeeded(p) =>
              LET at == Resolve(target_dir \o <<"/">> \o result[p].body)
              IN /\ at.err = "none"
                 /\ Parent(at.key) = <<<<"t">>>>
                 /\ Created(p) = {at.key}
                 /\ fs[at.key].content = bytes[p]
    /\ \A k \in DOMAIN fs :
          \A i \in 1..Len(fs[k].content) : fs[k].content[i] = fs[k].creator

\* The part of C6 that does not depend on where the file lies: a
\* successful upload has created exactly one file, the one it opened, which
\* holds exactly its bytes; no file holds a byte of another upload.
RoundTripOfOpenedFile ==
    /\ \A p \in Procs :
          Succeeded(p) =>
              /\ Created(p) = {file[p]}
              /\ fs[file[p]].content = bytes[p]
    /\ \A k \in DOMAIN fs :
          \A i \in 1..Len(fs[k].content) : fs[k].content[i] = fs[k].creator

\* C7: an upload whose file name has no '.' ends with 400 in either mode,
\* has attempted no create and has created no file.
C7_MissingExtension ==
    \A p \in Procs :
        (pc[p] # "idle" /\ original_name[p] # <<>> /\ "." \notin Range(original_name[p]))
            => /\ pc[p] = "done"
               /\ result[p].status = BAD_REQUEST
               /\ ~Attempted(p)
               /\ Created(p) = {}

\* Both a keep-name and a random-mode upload of a name without '.' have
\* been refused.
C7_Witness ==
    \E p, q \in Procs :
        /\ keep_name[p] /\ ~keep_name[q]
        /\ original_name[p] = <<"n">> /\ original_name[q] = <<"n">>
        /\ result[p].status = BAD_REQUEST /\ result[q].status = BAD_REQUEST

\* C8: a keep-name collision is answered with a client error (4xx), every
\* other failure of the create or of the write with a server error (5xx).
C8_ErrorKinds ==
    \A p \in Procs :
        (pc[p] = "done" /\ error[p] # "none") =>
            IF keep_name[p] /\ error[p] = "AlreadyExists"
            THEN result[p].status \in 400..499
            ELSE result[p].status \in 500..599

\* C10: a request without a field, with a field not named "file", without
\* a file name or with an unreadable body ends with 400; no name was
\* generated, no create attempted, no file created.
Defective(body) ==
    \/ body.next_field # "some"
    \/ body.name # "file"
    \/ ~body.has_file_name
    \/ ~body.readable

C10_BadRequest ==
    \A p \in Procs :
        (pc[p] # "idle" /\ Defective(multipart[p]))
            => /\ pc[p] = "done"
               /\ result[p].status = BAD_REQUEST
               /\ name[p] = <<>>
               /\ ~Attempted(p)
               /\ Created(p) = {}

\* All requests were defective, one with a field of another name, and the
\* directory is empty.
C10_Witness ==
    /\ \A p \in clients : pc[p] = "done" /\ Defective(multipart[p])
    /\ \E p \in Procs : multipart[p].name = "other"
    /\ \E p \in Procs : ~multipart[p].readable
    /\ DOMAIN fs = {}

\* C9: generate_name(len) returns len characters of the alphabet, the
\* draw d giving the (d+1)-th of a..z, A..Z, 0..9; never the panic branch.
C9_GenerateName ==
    gen_pc = "ret" =>
        /\ Len(gen_out) = gen_len
        /\ \A i \in 1..Len(gen_out) :
              /\ gen_out[i] \in Alphabet
              /\ gen_out[i] = (Lower \o Upper \o Digits)[gen_draws[i] + 1]
              /\ gen_out[i] # "panic"
        /\ gen_len = 0 => gen_out = <<>>

\* A call with the draws 51 and 61 has returned.
C9_Witness ==
    gen_pc = "ret" /\ gen_draws = <<51, 61>> /\ gen_out = <<"Z", "9">>

(***************************************************************************)
(* Properties of the retry loop.                                           *)
(***************************************************************************)
IoErrors == {"PermissionDenied", "NotFound", "IsADirectory", "WriteError"}

\* The names the next candidate of p can be are all taken.
AllTaken(p) ==
    \A draws \in [1..filename_length -> Draws] :
        LET r == Resolve(push(target_dir,
                     candidate(keep_name[p], original_name[p], extension[p],
                               filename_length, draws)))
        IN r.err = "none" /\ r.key \in DOMAIN fs

\* C11: every random-mode upload terminates: a handler that has reached the
\* loop returns at last, also when every candidate it can draw is taken.
C11_Terminates ==
    \A p \in Procs :
        (pc[p] = "loop" /\ ~keep_name[p]) ~> (pc[p] = "done")

\* C12: a random-mode upload never answers with a collision: while its last
\* create attempt met AlreadyExists it has created nothing, has answered
\* nothing and is still in the loop, about to try a fresh candidate; once it
\* has answered after an attempt it has either succeeded or met an I/O error
\* other than a collision; and the file it succeeds with is a file of its
\* own, other than every file that was there before.
C12_CollisionRetried ==
    \A p \in Procs :
        ~keep_name[p] =>
            /\ error[p] = "AlreadyExists" =>
                  /\ pc[p] = "loop"
                  /\ result[p].status = Pending
                  /\ file[p] = <<>>
                  /\ Created(p) = {}
            /\ (pc[p] = "done" /\ Attempted(p)) =>
                  \/ Succeeded(p) /\ error[p] = "none"
                  \/ result[p].status = INTERNAL_SERVER_ERROR /\ error[p] \in IoErrors
            /\ Succeeded(p) =>
                  /\ Created(p) = {file[p]}
                  /\ \A q \in Procs \ {p} : \A k \in Created(q) :
                        /\ k # file[p]
                        /\ pc[q] = "done" => Len(fs[k].content) = written[q]

\* A random-mode upload whose first candidate was taken has succeeded at a
\* later attempt under another name, and the file that was in its way holds
\* what its creator wrote.
C12_Witness ==
    \E p, q \in Procs :
        /\ p # q
        /\ ~keep_name[p] /\ Succeeded(p) /\ attempts[p] >= 2
        /\ Succeeded(q) /\ file[q] \in DOMAIN fs
        /\ fs[file[q]].content = bytes[q] /\ bytes[q] # <<>>
        /\ result[p].body # result[q].body
        /\ fs[file[p]].content = bytes[p]

CreateErrors == {"PermissionDenied", "NotFound", "IsADirectory"}

\* C13: in both modes, an upload whose create attempt failed with an error
\* other than AlreadyExists has answered 500 at once: it is done, it makes
\* no further attempt, it holds no handle, it has written nothing and it
\* has created no file.
C13_CreateErrorFailsFast ==
    \A p \in Procs :
        error[p] \in CreateErrors =>
            /\ pc[p] = "done"
            /\ result[p] = [status |-> INTERNAL_SERVER_ERROR, body |-> <<>>]
            /\ file[p] = <<>>
            /\ written[p] = 0
            /\ Created(p) = {}
            /\ ~ ENABLED loop_open(p)

\* A keep-name upload and a random-mode upload have each met such an error.
C13_Witness ==
    \E p, q \in Procs :
        /\ keep_name[p] /\ error[p] \in CreateErrors
        /\ ~keep_name[q] /\ error[q] \in CreateErrors
        /\ bytes[p] # <<>> /\ bytes[q] # <<>>

IsStrictPrefix(s, t) == Len(s) < Len(t) /\ s = SubSeq(t, 1, Len(s))

\* C14: an upload whose write failed after its create succeeded has answered
\* 500 and is done under the one name it created; the file is still there,
\* it is the only file of the upload, and it holds the strict prefix of the
\* content that was written (possibly nothing); no later step removes it,
\* so the name stays taken.
C14_WriteErrorLeavesFile ==
    \A p \in Procs :
        error[p] = "WriteError" =>
            /\ pc[p] = "done"
            /\ result[p] = [status |-> INTERNAL_SERVER_ERROR, body |-> <<>>]
            /\ file[p] \in DOMAIN fs
            /\ Created(p) = {file[p]}
            /\ Resolve(path[p]).key = file[p]
            /\ IsStrictPrefix(fs[file[p]].content, bytes[p])
            /\ Len(fs[file[p]].content) = written[p]

\* The write of an upload has failed, leaving an empty file, and the upload
\* of the same name that came after it met AlreadyExists.
C14_Witness ==
    \E p, q \in Procs :
        /\ p # q
        /\ error[p] = "WriteError" /\ fs[file[p]].content = <<>>
        /\ keep_name[q] /\ error[q] = "AlreadyExists"
        /\ Resolve(path[q]).key = file[p]

\* The uploads that have answered after an attempt at the file k.
Racers(k) ==
    {p \in Procs : pc[p] = "done" /\ Attempted(p) /\ Resolve(path[p]).key = k}

Holders(k) == {p \in Procs : file[p] = k}

C16_EventuallyCreates ==
    \A p \in Procs :
        (pc[p] = "loop" /\ ~keep_name[p])
            ~> \/ Succeeded(p) /\ Created(p) = {file[p]}
               \/ error[p] \in IoErrors
               \/ pc[p] = "loop" /\ AllTaken(p)

\* Two random-mode uploads drawing from the same names have both returned;
\* one of them collided on the way and took the last free name.
C16_Witness ==
    \E p, q \in Procs :
        /\ p # q /\ ~keep_name[p] /\ ~keep_name[q]
        /\ filename_length > 0
        /\ Succeeded(p) /\ Succeeded(q)
        /\ attempts[p] >= 2 /\ attempts[q] = 1
        /\ Created(p) = {file[p]}
        /\ AllTaken(p)

\* The last n requests pushed so far, in the order of their pushes.
MostRecent(n) == [i \in 1..n |-> pushed - n + i]

\* C17: the request log never holds more than 50 requests, and what it holds
\* is always the most recent requests in the order they arrived at it; the
\* push onto a log of 50 leaves 41, the 10 oldest gone and the new request
\* last; every other push appends; and a step that answers GET, like every
\* step that is no push, leaves the log as it was.
C17_RequestLog ==
    /\ [](/\ Len(last_requests) <= BufferLimit
          /\ Len(last_requests) <= pushed
          /\ last_requests = MostRecent(Len(last_requests)))
    /\ [][/\ pushed' # pushed =>
                 /\ pushed' = pushed + 1
                 /\ IF Len(last_requests) = BufferLimit
                    THEN /\ Len(last_requests') = BufferLimit + 1 - DrainCount
                         /\ last_requests' =
                                SubSeq(last_requests, DrainCount + 1, BufferLimit)
                                    \o <<pushed'>>
                    ELSE last_requests' = Append(last_requests, pushed')
          /\ pushed' = pushed => last_requests' = last_requests
          /\ pcs_out' # pcs_out =>
                 /\ last_requests' = last_requests
                 /\ pcs_out' = last_requests]_vars

\* The log was full, a push has drained it to 41 and ten more have filled it
\* again, two handlers are between their request and the lock, and a GET
\* has been answered with the 41 entries.
C17_Witness ==
    /\ pushed = BufferLimit + 1 + DrainCount - 1
    /\ Len(last_requests) = BufferLimit
    /\ last_requests[1] = DrainCount + 1
    /\ Len(pcs_out) = BufferLimit + 1 - DrainCount
    /\ Cardinality({c \in Procs : pcs_pc[c] = "request"}) >= 2

====
